---- MODULE Spec2Model ----
(***************************************************************************)
(* tempwallet-sdk: the TempWallet single-use state machine (src/wallet.ts) *)
(* the sweep builders (src/sweep.ts, src/safe.ts), the gas estimator       *)
(* (src/estimate.ts), the payment URI (src/utils.ts) and the Permit2       *)
(* skeleton (src/permit2.ts).                                              *)
(*                                                                         *)
(* Spec       one TempWallet, the wall clock, up to MaxCalls               *)
(*            sendTransaction calls whose awaits may interleave, direct    *)
(*            markAsUsed() calls and signPermit2 calls.                    *)
(* SweepSpec  buildSweepTx and buildSafeSweep applied to every input and   *)
(*            queried balance of the bounded sets below.                   *)
(* CalcSpec   estimateTotalCostWei, estimateWithMarginWei and              *)
(*            buildPaymentURI applied to every input of the bounded sets.  *)
(*                                                                         *)
(* An optional JavaScript value is a sequence: << >> is undefined, <<v>>   *)
(* is the value v.  Times are milliseconds, as Date.now() returns them.    *)
(***************************************************************************)
EXTENDS Integers, Sequences, FiniteSets, TLC

VARIABLES
    opts,    \* the CreateTempWalletOpts the wallet was created with
    meta,    \* TempWallet.meta: createdAt, expiresAt, label, used
    now,     \* Date.now()
    calls,   \* the sendTransaction calls on the wallet, by call number
    sweep,   \* the buildSweepTx call: position, input, queried balance, result
    safe,    \* the buildSafeSweep call: position, params, queried balance, result
    est,     \* the estimator call: function, input, marginBps, result
    uri,     \* the buildPaymentURI call: address, wei, result
    permit,  \* the signPermit2 call on the wallet: position, result
    directMark,  \* history: a caller has invoked markAsUsed() directly
    sender   \* the sendSweepTx call: position, descriptor, attempts, result

vars == <<opts, meta, now, calls, sweep, safe, est, uri, permit, directMark, sender>>

----------------------------------------------------------------------------
(* Bounds *)

MaxCalls == 2
StartNow == 2000
TickMs == 100
MaxNow == 3200
MaxBalance == 3
MaxBuffer == 4
MaxGas == 3
MaxPrice == 3
MaxWei == 12
MaxAmount == 1

----------------------------------------------------------------------------
(* JavaScript values *)

Undefined == << >>

Some(v) == <<v>>

\* ToBoolean of a number | undefined: undefined and 0 are falsy.
Truthy(v) == v # Undefined /\ v[1] # 0

\* v ?? d
OrElse(v, d) == IF v = Undefined THEN d ELSE v[1]

----------------------------------------------------------------------------
(* wallet.ts *)

Calls == 1..MaxCalls

TtlOpts == {Undefined, Some(-1), Some(0), Some(1)}

LabelOpts == {Undefined, Some("checkout")}

CreateOpts == [ttl : TtlOpts, label : LabelOpts]

\* isExpired without the `!!this.meta.expiresAt &&` test.
isExpired_NoSetTest(m, t) == t > OrElse(m.expiresAt, 0)

\* TempWallet.isExpired(), with Date.now() = t
isExpired(m, t) == Truthy(m.expiresAt) /\ t > OrElse(m.expiresAt, 0)

\* markAsUsed flipping the flag instead of setting it.
markAsUsed_Toggle(m) == [m EXCEPT !.used = ~m.used]

\* markAsUsed also dropping the expiry.
markAsUsed_ClearsExpiry(m) == [m EXCEPT !.used = TRUE, !.expiresAt = Undefined]

\* TempWallet.markAsUsed()
markAsUsed(m) == [m EXCEPT !.used = TRUE]

\* createTempWallet(o), with Date.now() = t
createTempWallet(o, t) ==
    [createdAt |-> t,
     expiresAt |-> IF Truthy(o.ttl) THEN Some(t + o.ttl[1] * 1000) ELSE Undefined,
     label     |-> o.label,
     used      |-> FALSE]

\* The guard checks in the other order: expiry first.
sendGuard_ExpiryFirst(m, t) ==
    IF isExpired(m, t) THEN "ExpiredSessionError"
    ELSE IF m.used THEN "AlreadyUsedError"
    ELSE "ok"

\* The guard checks without the expiry check.
sendGuard_NoExpiry(m, t) ==
    IF m.used THEN "AlreadyUsedError" ELSE "ok"

\* The two guard checks at the head of sendTransaction, in source order.
sendGuard(m, t) ==
    IF m.used THEN "AlreadyUsedError"
    ELSE IF isExpired(m, t) THEN "ExpiredSessionError"
    ELSE "ok"

\* The head of sendTransaction marking the wallet before it awaits.
metaAfterGuard_MarksEarly(m, t) == markAsUsed(m)

\* The head of sendTransaction marking the wallet once the checks pass.
metaAfterGuard_MarksOnPass(m, t) ==
    IF sendGuard(m, t) = "ok" THEN markAsUsed(m) ELSE m

\* The metadata after the synchronous head of sendTransaction: unchanged.
metaAfterGuard(m, t) == m

\* The continuation without the markAsUsed() call.
metaAfterReceipt_NoMark(m) == m

\* The continuation after `await resp.wait()`: markAsUsed(), then return.
metaAfterReceipt(m) == markAsUsed(m)

IdleCall ==
    [pc |-> "idle", result |-> "none", usedAtEntry |-> FALSE,
     expiredAtEntry |-> FALSE, overlapAtEntry |-> FALSE, submitted |-> FALSE,
     attempts |-> 0, rpcFailed |-> FALSE]

InFlight(c) == calls[c].pc \in {"sending", "waiting"}

\* sendTransaction refusing to start while another call is in flight.
SendInvoke_Locked(c) ==
    /\ calls[c].pc = "idle"
    /\ LET g == IF \E d \in Calls : InFlight(d)
                THEN "AlreadyUsedError" ELSE sendGuard(meta, now)
           entered == [IdleCall EXCEPT
                         !.usedAtEntry = meta.used,
                         !.expiredAtEntry = isExpired(meta, now),
                         !.overlapAtEntry = \E d \in Calls : InFlight(d)]
       IN  /\ calls' = [calls EXCEPT ![c] =
                          IF g = "ok"
                          THEN [entered EXCEPT !.pc = "sending", !.attempts = 1]
                          ELSE [entered EXCEPT !.pc = "done", !.result = g]]
           /\ meta' = metaAfterGuard(meta, now)
    /\ UNCHANGED <<opts, now, sweep, safe, est, uri, permit, directMark, sender>>

\* sendTransaction is invoked: it runs synchronously up to its first await.
SendInvoke(c) ==
    /\ calls[c].pc = "idle"
    /\ LET g == sendGuard(meta, now)
           entered == [IdleCall EXCEPT
                         !.usedAtEntry = meta.used,
                         !.expiredAtEntry = isExpired(meta, now),
                         !.overlapAtEntry = \E d \in Calls : InFlight(d)]
       IN  /\ calls' = [calls EXCEPT ![c] =
                          IF g = "ok"
                          THEN [entered EXCEPT !.pc = "sending", !.attempts = 1]
                          ELSE [entered EXCEPT !.pc = "done", !.result = g]]
           /\ meta' = metaAfterGuard(meta, now)
    /\ UNCHANGED <<opts, now, sweep, safe, est, uri, permit, directMark, sender>>

\* `await signer.sendTransaction(tx)` resolves: the endpoint took the transaction.
SubmitResolve(c) ==
    /\ calls[c].pc = "sending"
    /\ calls' = [calls EXCEPT ![c].pc = "waiting", ![c].submitted = TRUE]
    /\ UNCHANGED <<opts, meta, now, sweep, safe, est, uri, permit, directMark, sender>>

\* `await signer.sendTransaction(tx)` rejects: the error leaves the call.
SubmitReject(c) ==
    /\ calls[c].pc = "sending"
    /\ calls' = [calls EXCEPT ![c].pc = "done", ![c].result = "TransportError",
                              ![c].rpcFailed = TRUE]
    /\ UNCHANGED <<opts, meta, now, sweep, safe, est, uri, permit, directMark, sender>>

\* `await resp.wait()` resolves: markAsUsed(), return the hash.
WaitResolve(c) ==
    /\ calls[c].pc = "waiting"
    /\ meta' = metaAfterReceipt(meta)
    /\ calls' = [calls EXCEPT ![c].pc = "done", ![c].result = "hash"]
    /\ UNCHANGED <<opts, now, sweep, safe, est, uri, permit, directMark, sender>>

\* A failed confirmation wait consuming the wallet all the same.
WaitReject_MarksUsed(c) ==
    /\ calls[c].pc = "waiting"
    /\ calls' = [calls EXCEPT ![c].pc = "done", ![c].result = "TransportError",
                              ![c].rpcFailed = TRUE]
    /\ meta' = markAsUsed(meta)
    /\ UNCHANGED <<opts, now, sweep, safe, est, uri, permit, directMark, sender>>

\* `await resp.wait()` rejects: the error leaves the call before markAsUsed().
WaitReject(c) ==
    /\ calls[c].pc = "waiting"
    /\ calls' = [calls EXCEPT ![c].pc = "done", ![c].result = "TransportError",
                              ![c].rpcFailed = TRUE]
    /\ UNCHANGED <<opts, meta, now, sweep, safe, est, uri, permit, directMark, sender>>

\* A caller invokes the public markAsUsed() directly.
MarkAsUsed ==
    /\ meta' = markAsUsed(meta)
    /\ directMark' = TRUE
    /\ UNCHANGED <<opts, now, calls, sweep, safe, est, uri, permit, sender>>

\* The wall clock advances.
Tick ==
    /\ now + TickMs <= MaxNow
    /\ now' = now + TickMs
    /\ UNCHANGED <<opts, meta, calls, sweep, safe, est, uri, permit, directMark, sender>>

----------------------------------------------------------------------------
(* sweep.ts *)

Addresses == {"0x01", "0xdEaD"}

Balances == 0..MaxBalance

BufferOpts == {Undefined} \cup {Some(b) : b \in -1..MaxBuffer}

SweepInputs == [fromAddress : Addresses, to : Addresses, gasLimitBuffer : BufferOpts]

NoTx == << >>

\* buildSweepTx without the `balance === 0n` check.
buildSweepTx_NoZeroCheck(input, balance) ==
    LET gasBuffer == OrElse(input.gasLimitBuffer, 0)
        value == IF balance > gasBuffer THEN balance - gasBuffer ELSE 0
    IN  IF value <= 0
        THEN [kind |-> "InsufficientAfterBufferError", tx |-> NoTx]
        ELSE [kind |-> "ok", tx |-> [to |-> input.to, value |-> value]]

\* buildSweepTx sweeping the whole balance: the buffer is not subtracted.
buildSweepTx_NoSubtract(input, balance) ==
    IF balance = 0 THEN [kind |-> "NoBalanceToSweepError", tx |-> NoTx]
    ELSE LET gasBuffer == OrElse(input.gasLimitBuffer, 0)
             value == IF balance > gasBuffer THEN balance ELSE 0
         IN  IF value <= 0
             THEN [kind |-> "InsufficientAfterBufferError", tx |-> NoTx]
             ELSE [kind |-> "ok", tx |-> [to |-> input.to, value |-> value]]

\* buildSweepTx rejecting only `value < 0n`.
buildSweepTx_StrictReject(input, balance) ==
    IF balance = 0 THEN [kind |-> "NoBalanceToSweepError", tx |-> NoTx]
    ELSE LET gasBuffer == OrElse(input.gasLimitBuffer, 0)
             value == IF balance > gasBuffer THEN balance - gasBuffer ELSE 0
         IN  IF value < 0
             THEN [kind |-> "InsufficientAfterBufferError", tx |-> NoTx]
             ELSE [kind |-> "ok", tx |-> [to |-> input.to, value |-> value]]

\* buildSweepTx without the `value <= 0n` check.
buildSweepTx_NoValueCheck(input, balance) ==
    IF balance = 0 THEN [kind |-> "NoBalanceToSweepError", tx |-> NoTx]
    ELSE LET gasBuffer == OrElse(input.gasLimitBuffer, 0)
             value == IF balance > gasBuffer THEN balance - gasBuffer ELSE 0
         IN  [kind |-> "ok", tx |-> [to |-> input.to, value |-> value]]

\* buildSweepTx after `await getBalanceWei(...)` resolved with balance.
buildSweepTx(input, balance) ==
    IF balance = 0 THEN [kind |-> "NoBalanceToSweepError", tx |-> NoTx]
    ELSE LET gasBuffer == OrElse(input.gasLimitBuffer, 0)
             value == IF balance > gasBuffer THEN balance - gasBuffer ELSE 0
         IN  IF value <= 0
             THEN [kind |-> "InsufficientAfterBufferError", tx |-> NoTx]
             ELSE [kind |-> "ok", tx |-> [to |-> input.to, value |-> value]]

IdleSweep ==
    [pc |-> "idle", input |-> Undefined, balance |-> Undefined,
     result |-> [kind |-> "none", tx |-> NoTx], queries |-> 0, rpcFailed |-> FALSE]

\* buildSweepTx is invoked and suspends on the balance query.
BuildSweepInvoke(input) ==
    /\ sweep.pc = "idle"
    /\ sweep' = [IdleSweep EXCEPT !.pc = "querying", !.input = Some(input),
                                  !.queries = 1]
    /\ UNCHANGED <<opts, meta, now, calls, safe, est, uri, permit, directMark, sender>>

\* The balance query resolves with b and the rest of buildSweepTx runs.
BalanceResolve(b) ==
    /\ sweep.pc = "querying"
    /\ sweep' = [sweep EXCEPT !.pc = "done", !.balance = Some(b),
                              !.result = buildSweepTx(sweep.input[1], b)]
    /\ UNCHANGED <<opts, meta, now, calls, safe, est, uri, permit, directMark, sender>>

\* A failed balance query read as an empty account.
BalanceReject_DefaultsToZero ==
    /\ sweep.pc = "querying"
    /\ sweep' = [sweep EXCEPT !.pc = "done", !.rpcFailed = TRUE,
                              !.result = buildSweepTx(sweep.input[1], 0)]
    /\ UNCHANGED <<opts, meta, now, calls, safe, est, uri, permit, directMark, sender>>

\* The balance query rejects: the error leaves buildSweepTx.
BalanceReject ==
    /\ sweep.pc = "querying"
    /\ sweep' = [sweep EXCEPT !.pc = "done", !.rpcFailed = TRUE,
                              !.result = [kind |-> "TransportError", tx |-> NoTx]]
    /\ UNCHANGED <<opts, meta, now, calls, safe, est, uri, permit, directMark, sender>>

\* The caller has consumed the outcome; the next call can start.
SweepReturn ==
    /\ sweep.pc = "done"
    /\ sweep' = IdleSweep
    /\ UNCHANGED <<opts, meta, now, calls, safe, est, uri, permit, directMark, sender>>

\* The descriptors handed to sendSweepTx: what buildSweepTx returns.
SweepTxs == [to : Addresses, value : 1..MaxBalance]

IdleSender ==
    [pc |-> "idle", tx |-> NoTx, result |-> "none", submitted |-> FALSE,
     attempts |-> 0, rpcFailed |-> FALSE]

\* sendSweepTx is invoked: provider and signer are built, the submission is awaited.
SendSweepInvoke(tx) ==
    /\ sender.pc = "idle"
    /\ sender' = [IdleSender EXCEPT !.pc = "sending", !.tx = tx, !.attempts = 1]
    /\ UNCHANGED <<opts, meta, now, calls, sweep, safe, est, uri, permit, directMark>>

\* `await signer.sendTransaction(tx)` resolves: the endpoint took the sweep.
SendSweepSubmitResolve ==
    /\ sender.pc = "sending"
    /\ sender' = [sender EXCEPT !.pc = "waiting", !.submitted = TRUE]
    /\ UNCHANGED <<opts, meta, now, calls, sweep, safe, est, uri, permit, directMark>>

\* `await signer.sendTransaction(tx)` rejects: the error leaves sendSweepTx.
SendSweepSubmitReject ==
    /\ sender.pc = "sending"
    /\ sender' = [sender EXCEPT !.pc = "done", !.result = "TransportError",
                                !.rpcFailed = TRUE]
    /\ UNCHANGED <<opts, meta, now, calls, sweep, safe, est, uri, permit, directMark>>

\* `await resp.wait()` resolves: the hash is returned.
SendSweepWaitResolve ==
    /\ sender.pc = "waiting"
    /\ sender' = [sender EXCEPT !.pc = "done", !.result = "hash"]
    /\ UNCHANGED <<opts, meta, now, calls, sweep, safe, est, uri, permit, directMark>>

\* `await resp.wait()` rejects: the error leaves sendSweepTx.
SendSweepWaitReject ==
    /\ sender.pc = "waiting"
    /\ sender' = [sender EXCEPT !.pc = "done", !.result = "TransportError",
                                !.rpcFailed = TRUE]
    /\ UNCHANGED <<opts, meta, now, calls, sweep, safe, est, uri, permit, directMark>>

\* The caller has consumed the outcome; the next call can start.
SendSweepReturn ==
    /\ sender.pc = "done"
    /\ sender' = IdleSender
    /\ UNCHANGED <<opts, meta, now, calls, sweep, safe, est, uri, permit, directMark>>

----------------------------------------------------------------------------
(* safe.ts *)

SafeParams == [safeAddress : Addresses, to : Addresses]

\* buildSafeSweep applying buildSweepTx's zero-balance rejection.
buildSafeSweep_RejectsZero(params, bal) ==
    IF bal = 0 THEN [kind |-> "NoBalanceToSweepError", tx |-> NoTx]
    ELSE [kind |-> "ok", tx |-> [to |-> params.to, value |-> bal, data |-> "0x"]]

\* buildSafeSweep after `await getBalanceWei(...)` resolved with bal.
buildSafeSweep(params, bal) ==
    [kind |-> "ok", tx |-> [to |-> params.to, value |-> bal, data |-> "0x"]]

IdleSafe ==
    [pc |-> "idle", params |-> Undefined, balance |-> Undefined,
     result |-> [kind |-> "none", tx |-> NoTx], queries |-> 0, rpcFailed |-> FALSE]

\* buildSafeSweep is invoked and suspends on the balance query.
SafeSweepInvoke(params) ==
    /\ safe.pc = "idle"
    /\ safe' = [IdleSafe EXCEPT !.pc = "querying", !.params = Some(params),
                                !.queries = 1]
    /\ UNCHANGED <<opts, meta, now, calls, sweep, est, uri, permit, directMark, sender>>

\* The balance query resolves with b and buildSafeSweep returns.
SafeBalanceResolve(b) ==
    /\ safe.pc = "querying"
    /\ safe' = [safe EXCEPT !.pc = "done", !.balance = Some(b),
                            !.result = buildSafeSweep(safe.params[1], b)]
    /\ UNCHANGED <<opts, meta, now, calls, sweep, est, uri, permit, directMark, sender>>

\* The balance query rejects: the error leaves buildSafeSweep.
SafeBalanceReject ==
    /\ safe.pc = "querying"
    /\ safe' = [safe EXCEPT !.pc = "done", !.rpcFailed = TRUE,
                            !.result = [kind |-> "TransportError", tx |-> NoTx]]
    /\ UNCHANGED <<opts, meta, now, calls, sweep, est, uri, permit, directMark, sender>>

\* The caller has consumed the outcome; the next call can start.
SafeReturn ==
    /\ safe.pc = "done"
    /\ safe' = IdleSafe
    /\ UNCHANGED <<opts, meta, now, calls, sweep, est, uri, permit, directMark, sender>>

----------------------------------------------------------------------------
(* estimate.ts *)

\* A JavaScript number is held as its count of halves, so that 0.5 is 1 and
\* 2000 is 4000: enough to tell the integers from the other numbers.
Num(n) == 2 * n

BpsDenominator == 10000

GasUnits == -1..MaxGas

GasPrices == -1..MaxPrice

EstimateInputs == [gasUnits : GasUnits, gasPriceWei : GasPrices]

MarginOpts == {Num(-5000), Num(0), 1, Num(1), Num(2000), Num(5000)}

Abs(a) == IF a < 0 THEN -a ELSE a

\* BigInt(n) of a number: the integer itself, a RangeError (<< >>) otherwise.
BigIntOf(n) == IF n % 2 = 0 THEN Some(n \div 2) ELSE Undefined

\* bigint division rounding toward minus infinity.
bigDiv_Floor(a, b) == a \div b

\* bigint `/`: the quotient truncated toward zero.
bigDiv(a, b) ==
    LET q == Abs(a) \div Abs(b)
    IN  IF (a < 0) = (b < 0) THEN q ELSE -q

\* estimateTotalCostWei adding instead of multiplying.
estimateTotalCostWei_Adds(input) == input.gasUnits + input.gasPriceWei

\* estimateTotalCostWei(input)
estimateTotalCostWei(input) == input.gasUnits * input.gasPriceWei

\* estimateWithMarginWei dividing before it multiplies.
estimateWithMarginWei_DividesFirst(input, marginBps) ==
    LET total == estimateTotalCostWei(input)
        factor == BigIntOf(Num(BpsDenominator) + marginBps)
    IN  IF factor = Undefined
        THEN [kind |-> "RangeError", value |-> Undefined]
        ELSE [kind |-> "ok",
              value |-> Some(bigDiv(total, BpsDenominator) * factor[1])]

\* estimateWithMarginWei(input, marginBps)
estimateWithMarginWei(input, marginBps) ==
    LET total == estimateTotalCostWei(input)
        factor == BigIntOf(Num(BpsDenominator) + marginBps)
    IN  IF factor = Undefined
        THEN [kind |-> "RangeError", value |-> Undefined]
        ELSE [kind |-> "ok",
              value |-> Some(bigDiv(total * factor[1], BpsDenominator))]

IdleEst ==
    [fn |-> "none", input |-> Undefined, marginBps |-> Undefined,
     result |-> [kind |-> "none", value |-> Undefined]]

\* A caller evaluates estimateTotalCostWei(input).
EstimateTotalCall(input) ==
    /\ est' = [fn |-> "estimateTotalCostWei", input |-> Some(input),
               marginBps |-> Undefined,
               result |-> [kind |-> "ok", value |-> Some(estimateTotalCostWei(input))]]
    /\ UNCHANGED <<opts, meta, now, calls, sweep, safe, uri, permit, directMark, sender>>

\* A caller evaluates estimateWithMarginWei(input, marginBps).
EstimateWithMarginCall(input, marginBps) ==
    /\ est' = [fn |-> "estimateWithMarginWei", input |-> Some(input),
               marginBps |-> Some(marginBps),
               result |-> estimateWithMarginWei(input, marginBps)]
    /\ UNCHANGED <<opts, meta, now, calls, sweep, safe, uri, permit, directMark, sender>>

----------------------------------------------------------------------------
(* utils.ts *)

WeiOpts == {Undefined} \cup {Some(w) : w \in -1..MaxWei}

Digit(d) ==
    CASE d = 0 -> "0" [] d = 1 -> "1" [] d = 2 -> "2" [] d = 3 -> "3"
      [] d = 4 -> "4" [] d = 5 -> "5" [] d = 6 -> "6" [] d = 7 -> "7"
      [] d = 8 -> "8" [] d = 9 -> "9"

RECURSIVE toString(_)
\* bigint.toString(): the decimal digits, with a leading "-" below zero.
toString(w) ==
    IF w < 0 THEN "-" \o toString(-w)
    ELSE IF w < 10 THEN Digit(w)
    ELSE toString(w \div 10) \o Digit(w % 10)

\* buildPaymentURI(address, wei)
buildPaymentURI(address, wei) ==
    IF Truthy(wei)
    THEN "ethereum:" \o address \o "?value=" \o toString(wei[1])
    ELSE "ethereum:" \o address

IdleUri == [address |-> Undefined, wei |-> Undefined, result |-> Undefined]

\* A caller evaluates buildPaymentURI(address, wei).
BuildPaymentURICall(address, wei) ==
    /\ uri' = [address |-> Some(address), wei |-> wei,
               result |-> Some(buildPaymentURI(address, wei))]
    /\ UNCHANGED <<opts, meta, now, calls, sweep, safe, est, permit, directMark, sender>>

----------------------------------------------------------------------------
(* permit2.ts *)

Permit2Inputs ==
    [token : {"0x01"}, amount : 0..MaxAmount, spender : {"0xdEaD"},
     deadline : {0}, chainId : {1}]

\* signPermit2 consuming the wallet as a signing use would.
signPermit2_MarksUsed(m, input) ==
    [kind |-> "NotImplementedError", meta |-> markAsUsed(m)]

\* signPermit2(wallet, input): the outcome and the wallet's metadata after it.
signPermit2(m, input) == [kind |-> "NotImplementedError", meta |-> m]

IdlePermit ==
    [result |-> "none", input |-> Undefined,
     usedAtCall |-> FALSE, expiredAtCall |-> FALSE]

\* A caller invokes signPermit2(wallet, input); it has no await and rejects at once.
SignPermit2(input) ==
    /\ LET r == signPermit2(meta, input)
       IN  /\ permit' = [result |-> r.kind, input |-> Some(input),
                         usedAtCall |-> meta.used,
                         expiredAtCall |-> isExpired(meta, now)]
           /\ meta' = r.meta
    /\ UNCHANGED <<opts, now, calls, sweep, safe, est, uri, directMark, sender>>

----------------------------------------------------------------------------
(* Specifications *)

Init ==
    /\ opts \in CreateOpts
    /\ now = StartNow
    /\ meta = createTempWallet(opts, now)
    /\ calls = [c \in Calls |-> IdleCall]
    /\ sweep = IdleSweep
    /\ safe = IdleSafe
    /\ est = IdleEst
    /\ uri = IdleUri
    /\ permit = IdlePermit
    /\ directMark = FALSE
    /\ sender = IdleSender

Next ==
    \/ \E c \in Calls : SendInvoke(c)
    \/ \E c \in Calls : SubmitResolve(c)
    \/ \E c \in Calls : SubmitReject(c)
    \/ \E c \in Calls : WaitResolve(c)
    \/ \E c \in Calls : WaitReject(c)
    \/ MarkAsUsed
    \/ \E input \in Permit2Inputs : SignPermit2(input)
    \/ Tick

Spec == Init /\ [][Next]_vars

SweepInit ==
    /\ opts = [ttl |-> Undefined, label |-> Undefined]
    /\ now = StartNow
    /\ meta = createTempWallet(opts, now)
    /\ calls = [c \in Calls |-> IdleCall]
    /\ sweep = IdleSweep
    /\ safe = IdleSafe
    /\ est = IdleEst
    /\ uri = IdleUri
    /\ permit = IdlePermit
    /\ directMark = FALSE
    /\ sender = IdleSender

SweepNext ==
    \/ \E input \in SweepInputs : BuildSweepInvoke(input)
    \/ \E b \in Balances : BalanceResolve(b)
    \/ BalanceReject
    \/ SweepReturn
    \/ \E params \in SafeParams : SafeSweepInvoke(params)
    \/ \E b \in Balances : SafeBalanceResolve(b)
    \/ SafeBalanceReject
    \/ SafeReturn

SweepSpec == SweepInit /\ [][SweepNext]_vars

CalcInit == SweepInit

CalcNext ==
    \/ \E input \in EstimateInputs : EstimateTotalCall(input)
    \/ \E input \in EstimateInputs, marginBps \in MarginOpts :
          EstimateWithMarginCall(input, marginBps)
    \/ \E address \in Addresses, wei \in WeiOpts : BuildPaymentURICall(address, wei)

CalcSpec == CalcInit /\ [][CalcNext]_vars

RpcInit == SweepInit

\* No stateless helper (buildSweepTx, buildSafeSweep, sendSweepTx) is mid-call.
HelpersIdle == sweep.pc = "idle" /\ safe.pc = "idle" /\ sender.pc = "idle"

\* Every call that reaches the RPC endpoint.  sendTransaction calls overlap
\* freely; the helpers share no state with the wallet or with one another, so
\* they are started one at a time.
RpcNext ==
    \/ \E c \in Calls : SendInvoke(c)
    \/ \E c \in Calls : SubmitResolve(c)
    \/ \E c \in Calls : SubmitReject(c)
    \/ \E c \in Calls : WaitResolve(c)
    \/ \E c \in Calls : WaitReject(c)
    \/ (HelpersIdle /\ \E input \in SweepInputs : BuildSweepInvoke(input))
    \/ \E b \in Balances : BalanceResolve(b)
    \/ BalanceReject
    \/ SweepReturn
    \/ (HelpersIdle /\ \E params \in SafeParams : SafeSweepInvoke(params))
    \/ \E b \in Balances : SafeBalanceResolve(b)
    \/ SafeBalanceReject
    \/ SafeReturn
    \/ (HelpersIdle /\ \E tx \in SweepTxs : SendSweepInvoke(tx))
    \/ SendSweepSubmitResolve
    \/ SendSweepSubmitReject
    \/ SendSweepWaitResolve
    \/ SendSweepWaitReject
    \/ SendSweepReturn

RpcSpec == RpcInit /\ [][RpcNext]_vars

----------------------------------------------------------------------------
(* Properties of the wallet (Spec) *)

Returned(c) == calls[c].result = "hash"

Entered(c) == calls[c].pc # "idle"

\* The claim's "current time exceeds expiresAt", for an expiresAt that is set.
PastExpiresAt == meta.expiresAt # Undefined /\ now > OrElse(meta.expiresAt, 0)

\* C1 as stated: over any interleaving of sendTransaction calls, overlapping
\* ones included, at most one call returns a transaction identifier.
C1_AtMostOneReturns == Cardinality({c \in Calls : Returned(c)}) <= 1

\* C1: when no sendTransaction call is invoked while another call on the
\* wallet is still in flight, at most one call returns a transaction identifier.
C1_AtMostOneReturnsSequential ==
    (\A c \in Calls : ~calls[c].overlapAtEntry)
        => Cardinality({c \in Calls : Returned(c)}) <= 1

C1_Witness ==
    /\ \A c \in Calls : ~calls[c].overlapAtEntry
    /\ \E c, d \in Calls :
          /\ Returned(c)
          /\ calls[d].pc = "done"
          /\ calls[d].result = "AlreadyUsedError"

\* C2: a sendTransaction invoked while meta.used is true fails with
\* AlreadyUsedError, also when the wallet is expired at that moment, and
\* submits no transaction.
C2_UsedFailsAlreadyUsed ==
    \A c \in Calls :
        (Entered(c) /\ calls[c].usedAtEntry)
            => /\ calls[c].pc = "done"
               /\ calls[c].result = "AlreadyUsedError"
               /\ ~calls[c].submitted

C2_Witness ==
    \E c, d \in Calls :
        /\ Returned(d)
        /\ calls[c].usedAtEntry
        /\ calls[c].expiredAtEntry
        /\ calls[c].result = "AlreadyUsedError"

\* C3 as stated: once the current time exceeds a set expiresAt, no
\* sendTransaction call returns a transaction identifier from then on.
C3_NoReturnPastExpiresAt ==
    [][PastExpiresAt => \A c \in Calls : ~(~Returned(c) /\ calls'[c].result = "hash")]_vars

\* C3: a sendTransaction invoked while isExpired() is true never submits and
\* never returns a transaction identifier, whatever the value of used.
C3_ExpiredEntryNeverReturns ==
    \A c \in Calls :
        (Entered(c) /\ calls[c].expiredAtEntry)
            => /\ calls[c].pc = "done"
               /\ calls[c].result \in {"AlreadyUsedError", "ExpiredSessionError"}
               /\ ~calls[c].submitted

C3_Witness ==
    \E c, d \in Calls :
        /\ calls[c].expiredAtEntry
        /\ calls[c].result = "ExpiredSessionError"
        /\ ~calls[d].expiredAtEntry
        /\ Returned(d)

\* C4: a sendTransaction invoked with used = false and isExpired() true fails
\* with ExpiredSessionError, submits nothing, and the failing call leaves
\* used, createdAt and expiresAt as they were.
C4_ExpiredFailsAndLeavesMeta ==
    /\ [](\A c \in Calls :
            (Entered(c) /\ ~calls[c].usedAtEntry /\ calls[c].expiredAtEntry)
                => /\ calls[c].pc = "done"
                   /\ calls[c].result = "ExpiredSessionError"
                   /\ ~calls[c].submitted)
    /\ [][\A c \in Calls :
            (~Entered(c) /\ calls'[c].result = "ExpiredSessionError")
                => (~meta.used /\ meta' = meta)]_vars

C4_Witness ==
    \E c \in Calls :
        /\ calls[c].result = "ExpiredSessionError"
        /\ ~calls[c].usedAtEntry
        /\ ~calls[c].submitted
        /\ ~meta.used

\* C5: used starts false and is irreversible: once used is true it is true
\* in every later state.
C5_UsedIrreversible ==
    /\ ~meta.used
    /\ [][meta.used => meta'.used]_vars

C5_Witness ==
    /\ meta.used
    /\ now > meta.createdAt
    /\ \A c \in Calls : calls[c].pc = "done"

\* C6: a wallet created with no ttl has expiresAt unset, isExpired() false at
\* every time, and none of its sendTransaction calls fails with
\* ExpiredSessionError.
C6_NoTtlNeverExpires ==
    opts.ttl = Undefined
        => /\ meta.expiresAt = Undefined
           /\ ~isExpired(meta, now)
           /\ \A c \in Calls : calls[c].result # "ExpiredSessionError"

C6_Witness ==
    /\ opts.ttl = Undefined
    /\ now >= meta.createdAt + 1000
    /\ \E c \in Calls : Returned(c) /\ ~calls[c].usedAtEntry

\* C7 as stated: for every ttl passed, expiresAt = createdAt + ttl * 1000,
\* expiresAt is unset only when no ttl is passed, and isExpired() is true
\* exactly when now > expiresAt.
C7_TtlSetsExpiresAt ==
    /\ (meta.expiresAt = Undefined) <=> (opts.ttl = Undefined)
    /\ opts.ttl # Undefined
          => /\ meta.expiresAt = Some(meta.createdAt + OrElse(opts.ttl, 0) * 1000)
             /\ isExpired(meta, now) <=> (now > OrElse(meta.expiresAt, 0))

----------------------------------------------------------------------------
(* Properties of the sweep builder (SweepSpec) *)

SweepDone == sweep.pc = "done" /\ sweep.balance # Undefined

SweepBalance == OrElse(sweep.balance, 0)

SweepBuffer == OrElse(OrElse(sweep.input, [gasLimitBuffer |-> Undefined]).gasLimitBuffer, 0)

SweepTo == OrElse(sweep.input, [to |-> ""]).to

\* C8: buildSweepTx fails with NoBalanceToSweepError whenever the queried
\* balance is 0, for every gasLimitBuffer, and returns no descriptor.
C8_ZeroBalanceFails ==
    (SweepDone /\ SweepBalance = 0)
        => /\ sweep.result.kind = "NoBalanceToSweepError"
           /\ sweep.result.tx = NoTx

C8_Witness ==
    /\ SweepDone
    /\ SweepBalance = 0
    /\ sweep.input[1].gasLimitBuffer = Some(2)
    /\ sweep.result.kind = "NoBalanceToSweepError"

\* C9 as stated: for every balance B and buffer b with B > b the call
\* returns the descriptor {to, value: B - b}.
C9_ReturnsBalanceMinusBuffer ==
    (SweepDone /\ SweepBalance > SweepBuffer)
        => /\ sweep.result.kind = "ok"
           /\ sweep.result.tx = [to |-> SweepTo, value |-> SweepBalance - SweepBuffer]

\* C9: for every balance B > 0 and buffer b with B > b the call returns a
\* descriptor with exactly the fields to = input.to and value = B - b.
C9_PositiveReturnsBalanceMinusBuffer ==
    (SweepDone /\ SweepBalance > 0 /\ SweepBalance > SweepBuffer)
        => /\ sweep.result.kind = "ok"
           /\ sweep.result.tx = [to |-> SweepTo, value |-> SweepBalance - SweepBuffer]

C9_Witness ==
    /\ SweepDone
    /\ SweepBalance = 3
    /\ sweep.input[1].gasLimitBuffer = Some(1)
    /\ sweep.input[1].to # sweep.input[1].fromAddress
    /\ sweep.result.kind = "ok"
    /\ sweep.result.tx.value = 2

\* C10 as stated: for every balance B and buffer b with B <= b the call
\* fails with InsufficientAfterBufferError.
C10_NotAboveBufferFails ==
    (SweepDone /\ SweepBalance <= SweepBuffer)
        => sweep.result.kind = "InsufficientAfterBufferError"

\* C10: for every balance B > 0 and buffer b with B <= b the call fails with
\* InsufficientAfterBufferError and returns no descriptor.
C10_PositiveNotAboveBufferFails ==
    (SweepDone /\ SweepBalance > 0 /\ SweepBalance <= SweepBuffer)
        => /\ sweep.result.kind = "InsufficientAfterBufferError"
           /\ sweep.result.tx = NoTx

C10_Witness ==
    /\ SweepDone
    /\ SweepBalance = 2
    /\ sweep.input[1].gasLimitBuffer = Some(2)
    /\ sweep.result.kind = "InsufficientAfterBufferError"

\* max(0, balance - buffer), the derived value of the data model.
SweepDerivedValue ==
    IF SweepBalance - SweepBuffer > 0 THEN SweepBalance - SweepBuffer ELSE 0

\* C11: buildSweepTx returns a descriptor exactly when the queried balance is
\* > 0 and max(0, balance - buffer) is > 0; otherwise it ends in
\* NoBalanceToSweepError or InsufficientAfterBufferError, and a returned
\* descriptor never has value <= 0.
C11_DescriptorOnlyWhenPositive ==
    SweepDone
        => /\ sweep.result.kind = "ok" <=> (SweepBalance > 0 /\ SweepDerivedValue > 0)
           /\ sweep.result.kind # "ok"
                 => /\ sweep.result.kind \in
                         {"NoBalanceToSweepError", "InsufficientAfterBufferError"}
                    /\ sweep.result.tx = NoTx
           /\ sweep.result.kind = "ok" => sweep.result.tx.value > 0

C11_Witness ==
    /\ SweepDone
    /\ SweepBalance = 3
    /\ sweep.input[1].gasLimitBuffer = Some(2)
    /\ sweep.result.kind = "ok"
    /\ sweep.result.tx.value = 1

SafeDone == safe.pc = "done" /\ safe.balance # Undefined

SafeBalance == OrElse(safe.balance, 0)

SafeParamsGiven == OrElse(safe.params, [safeAddress |-> "", to |-> ""])

\* C12: buildSafeSweep returns {to, value: balance, data: "0x"} for every
\* queried balance, 0 included, where buildSweepTx on a zero balance fails
\* with NoBalanceToSweepError.
C12_SafeSweepReturnsBalance ==
    SafeDone
        => /\ safe.result =
                [kind |-> "ok",
                 tx |-> [to |-> SafeParamsGiven.to, value |-> SafeBalance, data |-> "0x"]]
           /\ SafeBalance = 0
                 => buildSweepTx([fromAddress |-> SafeParamsGiven.safeAddress,
                                  to |-> SafeParamsGiven.to,
                                  gasLimitBuffer |-> Undefined], SafeBalance).kind
                       = "NoBalanceToSweepError"

C12_Witness ==
    /\ SafeDone
    /\ SafeBalance = 0
    /\ safe.result.kind = "ok"
    /\ safe.result.tx.value = 0
    /\ SweepDone
    /\ SweepBalance = 0
    /\ sweep.result.kind = "NoBalanceToSweepError"

----------------------------------------------------------------------------
(* Properties of the estimator and the payment URI (CalcSpec) *)

EstInput == OrElse(est.input, [gasUnits |-> 0, gasPriceWei |-> 0])

EstTotal == EstInput.gasUnits * EstInput.gasPriceWei

EstValue == OrElse(est.result.value, 0)

WithMarginCalled == est.fn = "estimateWithMarginWei"

\* The marginBps of the call is an integer / that integer.
MarginIsInteger == OrElse(est.marginBps, 0) % 2 = 0

MarginInt == OrElse(est.marginBps, 0) \div 2

\* C13: estimateTotalCostWei returns exactly gasUnits * gasPriceWei.
C13_TotalIsProduct ==
    est.fn = "estimateTotalCostWei"
        => est.result = [kind |-> "ok", value |-> Some(EstTotal)]

C13_Witness ==
    /\ est.fn = "estimateTotalCostWei"
    /\ EstInput = [gasUnits |-> 3, gasPriceWei |-> 3]
    /\ est.result.value = Some(9)

\* C14 as stated: for all gasUnits, gasPriceWei and every marginBps >= 0 the
\* result is >= the total cost, and with marginBps = 0 it equals the total cost.
C14_MarginNotBelowTotal ==
    (WithMarginCalled /\ OrElse(est.marginBps, 0) >= 0)
        => /\ est.result.kind = "ok"
           /\ EstValue >= EstTotal
           /\ est.marginBps = Some(Num(0)) => EstValue = EstTotal

\* C14: for gasUnits * gasPriceWei >= 0 and every integer marginBps >= 0 the
\* result is >= the total cost; with marginBps = 0 it equals the total cost
\* for all gasUnits and gasPriceWei.
C14_MarginNotBelowNonNegativeTotal ==
    (WithMarginCalled /\ MarginIsInteger /\ MarginInt >= 0)
        => /\ est.result.kind = "ok"
           /\ EstTotal >= 0 => EstValue >= EstTotal
           /\ MarginInt = 0 => EstValue = EstTotal

C14_Witness ==
    /\ WithMarginCalled
    /\ EstInput = [gasUnits |-> 3, gasPriceWei |-> 1]
    /\ est.marginBps = Some(Num(5000))
    /\ est.result.value = Some(4)

\* C15 as stated: for all integer inputs the result is the floor of
\* totalCost * (10000 + marginBps) / 10000.
C15_MarginIsFloor ==
    (WithMarginCalled /\ MarginIsInteger)
        => /\ est.result.kind = "ok"
           /\ EstValue * BpsDenominator <= EstTotal * (BpsDenominator + MarginInt)
           /\ EstTotal * (BpsDenominator + MarginInt) < (EstValue + 1) * BpsDenominator

\* C15: for all integer inputs the result is totalCost * (10000 + marginBps)
\* / 10000 truncated toward zero: the floor of the exact quotient when the
\* product is >= 0, its ceiling when the product is negative.
C15_MarginIsTruncation ==
    (WithMarginCalled /\ MarginIsInteger)
        => LET x == EstTotal * (BpsDenominator + MarginInt)
               q == EstValue
           IN  /\ est.result.kind = "ok"
               /\ x >= 0 => (q * BpsDenominator <= x /\ x < (q + 1) * BpsDenominator)
               /\ x < 0 => ((q - 1) * BpsDenominator < x /\ x <= q * BpsDenominator)

C15_Witness ==
    /\ WithMarginCalled
    /\ EstInput = [gasUnits |-> -1, gasPriceWei |-> 3]
    /\ est.marginBps = Some(Num(5000))
    /\ est.result.value = Some(-4)

\* C16 as stated: with no amount the URI is "ethereum:" + addr, and for every
\* amount w that is passed it is "ethereum:" + addr + "?value=" + decimal(w).
C16_UriCarriesEveryAmount ==
    uri.result # Undefined
        => uri.result =
              Some(IF uri.wei = Undefined
                   THEN "ethereum:" \o OrElse(uri.address, "")
                   ELSE "ethereum:" \o OrElse(uri.address, "") \o "?value="
                            \o toString(OrElse(uri.wei, 0)))

----------------------------------------------------------------------------
(* Properties of the wallet, continued (Spec) *)

\* C17: signPermit2 always fails with the not-implemented error, whatever the
\* wallet's used / expired state, and leaves the wallet's metadata unchanged.
C17_PermitAlwaysFails ==
    /\ [](permit.result \in {"none", "NotImplementedError"})
    /\ [][permit' # permit
            => (permit'.result = "NotImplementedError" /\ meta' = meta)]_vars

C17_Witness ==
    /\ permit.result = "NotImplementedError"
    /\ permit.usedAtCall
    /\ permit.expiredAtCall
    /\ permit.input # Undefined

\* C18 as stated: in every state where used is true, some sendTransaction
\* call on the wallet has submitted a transaction.
C18_UsedOnlyBySend ==
    meta.used => \E c \in Calls : calls[c].submitted

\* C18: in every state where used is true, a sendTransaction call has been
\* confirmed or markAsUsed() has been called directly; no operation changes
\* createdAt, expiresAt or label.
C18_UsedOnlyByMarkAsUsed ==
    /\ [](meta.used
            => (directMark \/ \E c \in Calls : Returned(c) /\ calls[c].submitted))
    /\ [][/\ meta'.createdAt = meta.createdAt
          /\ meta'.expiresAt = meta.expiresAt
          /\ meta'.label = meta.label]_vars

C18_Witness ==
    /\ meta.used
    /\ directMark
    /\ meta.expiresAt # Undefined
    /\ \A c \in Calls : ~calls[c].submitted
    /\ \E c \in Calls : calls[c].result = "AlreadyUsedError"

\* C19 as stated: used is false while a call is between submission and
\* confirmation, and true once a call has returned an identifier.
C19_UnusedUntilConfirmed ==
    \A c \in Calls :
        /\ calls[c].pc = "waiting" => ~meta.used
        /\ Returned(c) => meta.used

\* C19: a call submits, then is confirmed, then sets used, then returns; the
\* call leaves the metadata alone until its confirmation, so used is true
\* before that only through another confirmed call or a direct markAsUsed();
\* used is true in every state after the call returned an identifier.
C19_SendOrder ==
    /\ [](\A c \in Calls :
            /\ (InFlight(c) /\ meta.used)
                  => (directMark \/ \E d \in Calls \ {c} : Returned(d))
            /\ Returned(c) => (meta.used /\ calls[c].submitted))
    /\ [][\A c \in Calls :
            /\ (~calls[c].submitted /\ calls'[c].submitted)
                  => (calls[c].pc = "sending" /\ calls'[c].pc = "waiting" /\ meta' = meta)
            /\ (~Returned(c) /\ calls'[c].result = "hash")
                  => (calls[c].pc = "waiting" /\ calls[c].submitted /\ meta'.used)]_vars

C19_Witness ==
    /\ ~directMark
    /\ \E c \in Calls :
          /\ Returned(c)
          /\ calls[c].submitted
          /\ ~calls[c].overlapAtEntry
          /\ \A d \in Calls \ {c} : ~Entered(d)
    /\ meta.used

\* C20: a sendTransaction invoked on an unexpired wallet while another call is
\* in flight, before any call was confirmed and with no direct markAsUsed(),
\* finds used = false and passes both checks; nothing guards the check.
C20_OverlappingSendsPassCheck ==
    \A c \in Calls :
        (/\ Entered(c)
         /\ calls[c].overlapAtEntry
         /\ ~calls[c].expiredAtEntry
         /\ ~directMark
         /\ \A d \in Calls : ~Returned(d))
            => /\ ~calls[c].usedAtEntry
               /\ calls[c].result \notin {"AlreadyUsedError", "ExpiredSessionError"}

\* Two calls on one fresh, unexpired wallet have both submitted.
C20_Witness ==
    /\ opts.ttl = Undefined
    /\ \E c, d \in Calls :
          /\ c # d
          /\ calls[d].overlapAtEntry
          /\ calls[c].pc = "waiting"
          /\ calls[d].pc = "waiting"
          /\ calls[c].submitted
          /\ calls[d].submitted

----------------------------------------------------------------------------
(* Properties of the sweep builder, continued (SweepSpec) *)

\* C23 as stated: for every balance and every gasLimitBuffer (any bigint, or
\* omitted) the value of a returned descriptor never exceeds the queried balance.
C23_ValueNotAboveBalance ==
    (SweepDone /\ sweep.result.kind = "ok")
        => sweep.result.tx.value <= SweepBalance

----------------------------------------------------------------------------
(* Properties of the wallet, continued (Spec) *)

Failed(c) == calls[c].pc = "done" /\ calls[c].result = "TransportError"

\* C22 as stated: after a sendTransaction that passed the guard checks and
\* failed in its submission or its confirmation wait, used is false.
C22_FailedSendLeavesUnused ==
    \A c \in Calls : Failed(c) => ~meta.used

\* C22: a sendTransaction that passed the guard checks and failed leaves the
\* metadata as it was, so used is false after it unless another call was
\* confirmed or markAsUsed() was called directly; a sendTransaction entered
\* on the unused, unexpired wallet then passes both checks.
C22_FailedSendDoesNotConsume ==
    /\ [](\A c \in Calls :
            /\ (Failed(c) /\ ~directMark /\ \A d \in Calls : ~Returned(d))
                  => ~meta.used
            /\ (Entered(c) /\ ~calls[c].usedAtEntry /\ ~calls[c].expiredAtEntry)
                  => calls[c].result \notin {"AlreadyUsedError", "ExpiredSessionError"})
    /\ [][\A c \in Calls : (~Failed(c) /\ calls'[c].result = "TransportError")
                              => (InFlight(c) /\ meta' = meta)]_vars

\* A confirmation wait failed after the broadcast; a later call submitted again.
C22_Witness ==
    /\ ~meta.used
    /\ \E c, d \in Calls :
          /\ Failed(c)
          /\ calls[c].submitted
          /\ ~calls[d].overlapAtEntry
          /\ ~calls[d].usedAtEntry
          /\ calls[d].pc = "waiting"
          /\ calls[d].submitted

----------------------------------------------------------------------------
(* Properties of the RPC calls (RpcSpec) *)

TransportFailure == [kind |-> "TransportError", tx |-> NoTx]

\* C21: an RPC failure during sendTransaction, buildSweepTx, buildSafeSweep or
\* sendSweepTx ends that call with the transport error, no descriptor and no
\* hash; each call makes at most one submission attempt and at most one
\* balance query, and a sendTransaction that failed does not move again.
C21_RpcFailureEndsCall ==
    /\ [](/\ \A c \in Calls :
               /\ calls[c].attempts <= 1
               /\ calls[c].rpcFailed
                    => (calls[c].pc = "done" /\ calls[c].result = "TransportError")
          /\ sweep.queries <= 1
          /\ sweep.rpcFailed => (sweep.pc = "done" /\ sweep.result = TransportFailure)
          /\ safe.queries <= 1
          /\ safe.rpcFailed => (safe.pc = "done" /\ safe.result = TransportFailure)
          /\ sender.attempts <= 1
          /\ sender.rpcFailed
               => (sender.pc = "done" /\ sender.result = "TransportError"))
    /\ [][\A c \in Calls : calls[c].rpcFailed => calls'[c] = calls[c]]_vars

\* One send failed at submission, one at the confirmation wait, and the sweep
\* builder's balance query failed.
C21_Witness ==
    /\ \E c, d \in Calls :
          /\ calls[c].rpcFailed /\ ~calls[c].submitted
          /\ calls[d].rpcFailed /\ calls[d].submitted
    /\ sweep.rpcFailed
    /\ sweep.result = TransportFailure

====
